---- MODULE Spec2Model ----
(***************************************************************************)
(* Model of the RAG Admission Officer service: the /ask, /clear-memory and *)
(* DELETE /sessions handlers of api.py, the retrieval helpers of           *)
(* src/query.py and the ConversationMemory window buffer of src/utils.py.  *)
(*                                                                         *)
(* Text is modelled as a sequence of one-character strings, so that        *)
(* str.strip, str.split, str.lower, the substring test and the f-strings   *)
(* of the source are computed character by character.  Session keys and    *)
(* generator answers are opaque and are modelled as TLA+ strings.          *)
(***************************************************************************)
EXTENDS Integers, Sequences, FiniteSets, TLC

VARIABLES
    conversation_sessions, \* api.py: session key -> ConversationMemory
    results_file,          \* query.py: content of RESULTS_DIR/RESULTS_FILENAME
    now,                   \* logical clock read by datetime.now()
    last,                  \* request, environment, call trace and response of the last /ask
    memory,                \* a stand-alone ConversationMemory object
    added,                 \* interactions given to memory.add_interaction since construction or clear()
    data_json,             \* content of data.json read by local_retrieve
    lr,                    \* arguments and result of the last local_retrieve call
    applied,               \* arguments and result of a detect_category, sources or format_context application
    served,                \* the last request the service handled: its endpoint and session key
    referenced             \* session keys named by a memory-enabled /ask and not deleted since

vars == <<conversation_sessions, results_file, now, last, memory, added, data_json, lr,
          applied, served, referenced>>

----------------------------------------------------------------------------
(* Bounds of the model *)

\* number of /ask requests in one behaviour
MaxRequests == 1
\* largest window_size of the stand-alone ConversationMemory
MaxWindow == 3
\* number of add_interaction calls between two clear() calls
MaxAdds == 5
\* longest query text given to local_retrieve
MaxQueryLen == 3
\* largest top_k given to local_retrieve
MaxTopK == 3

----------------------------------------------------------------------------
(* Python values *)

\* Python's None; a one-element tuple that no text equals, since "None" is
\* not a single character
None == <<"None">>

\* truth value of an optional text: None and "" are falsy
Truthy(x) == x # None /\ x # <<>>

Min(a, b) == IF a < b THEN a ELSE b

\* the characters str.strip() removes and str.split() splits on
Whitespace == {" ", "\n", "\t"}

\* the argument of w.strip('.,()\"') in local_retrieve
Punctuation == {".", ",", "(", ")", "\""}

UpperToLower ==
    ("A" :> "a") @@ ("B" :> "b") @@ ("C" :> "c") @@ ("D" :> "d") @@ ("E" :> "e") @@
    ("F" :> "f") @@ ("G" :> "g") @@ ("H" :> "h") @@ ("I" :> "i") @@ ("J" :> "j") @@
    ("K" :> "k") @@ ("L" :> "l") @@ ("M" :> "m") @@ ("N" :> "n") @@ ("O" :> "o") @@
    ("P" :> "p") @@ ("Q" :> "q") @@ ("R" :> "r") @@ ("S" :> "s") @@ ("T" :> "t") @@
    ("U" :> "u") @@ ("V" :> "v") @@ ("W" :> "w") @@ ("X" :> "x") @@ ("Y" :> "y") @@
    ("Z" :> "z")

\* str.lower()
lower(s) == [i \in 1..Len(s) |-> IF s[i] \in DOMAIN UpperToLower THEN UpperToLower[s[i]] ELSE s[i]]

RECURSIVE lstrip(_, _)
lstrip(s, chars) ==
    IF s # <<>> /\ Head(s) \in chars THEN lstrip(Tail(s), chars) ELSE s

RECURSIVE rstrip(_, _)
rstrip(s, chars) ==
    IF s # <<>> /\ s[Len(s)] \in chars THEN rstrip(SubSeq(s, 1, Len(s) - 1), chars) ELSE s

\* str.strip(chars): removes leading and trailing characters of chars only
strip(s, chars) == rstrip(lstrip(s, chars), chars)

RECURSIVE splitFrom(_, _, _)
splitFrom(s, cur, acc) ==
    IF s = <<>> THEN (IF cur = <<>> THEN acc ELSE Append(acc, cur))
    ELSE IF Head(s) \in Whitespace
         THEN splitFrom(Tail(s), <<>>, IF cur = <<>> THEN acc ELSE Append(acc, cur))
         ELSE splitFrom(Tail(s), Append(cur, Head(s)), acc)

\* str.split(): the maximal runs of non-whitespace characters, in order
split(s) == splitFrom(s, <<>>, <<>>)

\* keyword in query_lower: the substring test
Contains(s, k) == \E i \in 0..(Len(s) - Len(k)) : SubSeq(s, i + 1, i + Len(k)) = k

Range(f) == {f[i] : i \in DOMAIN f}

----------------------------------------------------------------------------
(* src/utils.py: ConversationMemory *)

\* ConversationMemory(window_size)
NewMemory(window_size) == [window_size |-> window_size, history |-> <<>>]

\* a faulty variant: the append without the truncation to the window
add_interaction_unbounded(m, question, answer) ==
    [m EXCEPT !.history = Append(m.history, [question |-> question, answer |-> answer])]

\* a faulty variant: the truncation keeps the oldest window_size interactions
add_interaction_keep_oldest(m, question, answer) ==
    LET h == Append(m.history, [question |-> question, answer |-> answer])
    IN  [m EXCEPT !.history = IF Len(h) > m.window_size THEN SubSeq(h, 1, m.window_size) ELSE h]

\* the slice history[-n:] of a list h, for n > 0; for n = 0 Python's h[-0:] is h[0:], the whole list
LastSlice(h, n) ==
    IF n = 0 \/ n >= Len(h) THEN h ELSE SubSeq(h, Len(h) - n + 1, Len(h))

\* ConversationMemory.add_interaction
add_interaction(m, question, answer) ==
    LET h == Append(m.history, [question |-> question, answer |-> answer])
    IN  [m EXCEPT !.history = IF Len(h) > m.window_size THEN LastSlice(h, m.window_size) ELSE h]

\* ConversationMemory.get_history
get_history(m) == m.history

\* ConversationMemory.clear
clear(m) == [m EXCEPT !.history = <<>>]

\* ConversationMemory.__len__
MemoryLen(m) == Len(m.history)

\* bool(memory) of a ConversationMemory object: the class defines __len__ and
\* no __bool__, so Python takes an object with an empty history as falsy
MemoryTruthy(m) == MemoryLen(m) # 0

----------------------------------------------------------------------------
(* src/query.py: detect_category *)

\* the dict category_keywords, in declaration order
category_keywords == <<
    [category |-> <<"A","d","m","i","s","s","i","o","n","s">>,
     keywords |-> << <<"a","p","p","l","y">>, <<"a","d","m","i","s","s","i","o","n">>, <<"a","c","c","e","p","t">>, <<"r","e","q","u","i","r","e","m","e","n","t","s">>, <<"a","p","p","l","i","c","a","t","i","o","n">>, <<"e","n","r","o","l","l">> >>],
    [category |-> <<"F","e","e","s">>,
     keywords |-> << <<"f","e","e">>, <<"t","u","i","t","i","o","n">>, <<"c","o","s","t">>, <<"p","a","y","m","e","n","t">>, <<"c","r","e","d","i","t">>, <<"p","r","i","c","e">>, <<"p","a","y">>, <<"r","e","f","u","n","d">> >>],
    [category |-> <<"A","c","a","d","e","m","i","c","s">>,
     keywords |-> << <<"g","p","a">>, <<"g","r","a","d","e","s">>, <<"s","c","o","r","e","s">>, <<"g","r","a","d","e">>, <<"c","g","p","a">>, <<"d","e","a","n">> >>],
    [category |-> <<"A","c","a","d","e","m","i","c"," ","A","d","v","i","s","i","n","g">>,
     keywords |-> << <<"a","d","v","i","s","o","r">>, <<"t","r","a","c","k">>, <<"c","o","u","r","s","e">>, <<"m","a","j","o","r">>, <<"r","e","g","i","s","t","e","r">>, <<"s","u","m","m","e","r"," ","c","o","u","r","s","e">> >>],
    [category |-> <<"I","T"," ","&"," ","S","y","s","t","e","m","s">>,
     keywords |-> << <<"p","o","r","t","a","l">>, <<"m","o","o","d","l","e">>, <<"l","o","g","i","n">>, <<"s","y","s","t","e","m">>, <<"t","e","c","h","n","i","c","a","l">>, <<"s","u","p","p","o","r","t">> >>],
    [category |-> <<"E","m","a","i","l","s">>,
     keywords |-> << <<"e","m","a","i","l">>, <<"g","m","a","i","l">>, <<"o","u","t","l","o","o","k">>, <<"m","a","i","l">>, <<"i","n","b","o","x">>, <<"a","d","d","r","e","s","s">>, <<"c","o","n","t","a","c","t"," ","e","m","a","i","l">> >>]
    >>

\* sum(1 for keyword in keywords if keyword in query_lower)
CategoryScore(keywords, query_lower) ==
    Cardinality({k \in 1..Len(keywords) : Contains(query_lower, keywords[k])})

\* a faulty variant: among the categories of largest score the last declared wins
detect_category_last_wins(query) ==
    LET query_lower == lower(query)
        score(i) == CategoryScore(category_keywords[i].keywords, query_lower)
        category_scores == {i \in 1..Len(category_keywords) : score(i) > 0}
    IN  IF category_scores # {}
        THEN category_keywords[
                 CHOOSE i \in category_scores :
                     \A j \in category_scores :
                         score(j) < score(i) \/ (score(j) = score(i) /\ j <= i)].category
        ELSE None

\* detect_category: max() over the dict of positive scores returns the first
\* key, in insertion order, that has the largest score
detect_category(query) ==
    LET query_lower == lower(query)
        score(i) == CategoryScore(category_keywords[i].keywords, query_lower)
        category_scores == {i \in 1..Len(category_keywords) : score(i) > 0}
    IN  IF category_scores # {}
        THEN category_keywords[
                 CHOOSE i \in category_scores :
                     \A j \in category_scores :
                         score(j) < score(i) \/ (score(j) = score(i) /\ i <= j)].category
        ELSE None

----------------------------------------------------------------------------
(* src/query.py: local_retrieve *)

\* entry.get(key, default) of a dataset entry; an absent key is held as None
GetOr(v, default) == IF v = None THEN default ELSE v

EntryCategory(entry) == GetOr(entry.category, <<"G","e","n","e","r","a","l">>)

EntryQuestion(entry) == strip(GetOr(entry.question, <<>>), Whitespace)

EntryAnswer(entry) == strip(GetOr(entry.answer, <<>>), Whitespace)

\* the path os.path.join(cwd, "data.json")
json_path == <<"/","a","p","p","/","d","a","t","a",".","j","s","o","n">>

\* a faulty variant: the category filter is not applied
KeepEntry_no_filter(entry, category_filter) ==
    EntryQuestion(entry) # <<>> \/ EntryAnswer(entry) # <<>>

\* the entries of data.json that become candidates: not skipped by the
\* category filter, and with a question or an answer
KeepEntry(entry, category_filter) ==
    /\ ~(Truthy(category_filter) /\ EntryCategory(entry) # category_filter)
    /\ (EntryQuestion(entry) # <<>> \/ EntryAnswer(entry) # <<>>)

\* combined = f"Question: {qtext}\nAnswer: {atext}"
Combined(entry) ==
    <<"Q","u","e","s","t","i","o","n",":"," ">> \o EntryQuestion(entry) \o <<"\n","A","n","s","w","e","r",":"," ">> \o EntryAnswer(entry)

\* the metadata dict stored with each item
EntryMeta(entry) ==
    [source |-> json_path,
     qa_id |-> GetOr(entry.id, <<>>),
     category |-> EntryCategory(entry),
     question |-> EntryQuestion(entry),
     answer |-> EntryAnswer(entry)]

\* q_tokens = set(w.lower() for w in query.split())
QueryTokens(query) == {lower(w) : w \in Range(split(query))}

\* item_tokens = set(w.lower().strip('.,()\"') for w in item.split())
ItemTokens(item) == {strip(lower(w), Punctuation) : w \in Range(split(item))}

\* len(q_tokens & item_tokens)
OverlapScore(query, item) == Cardinality(QueryTokens(query) \cap ItemTokens(item))

\* s[:k] for k >= 0
FirstK(s, k) == SubSeq(s, 1, Min(k, Len(s)))

\* sorted(enumerate(scores), key=lambda x: x[1], reverse=True) as the sequence
\* of indices: Python's sort is stable, also with reverse=True, so an index
\* goes after every earlier index whose score is at least its own
RECURSIVE Ranked(_, _)
Ranked(scores, n) ==
    IF n = 0 THEN <<>>
    ELSE LET prev == Ranked(scores, n - 1)
             pos == Cardinality({j \in 1..Len(prev) : scores[prev[j]] >= scores[n]})
         IN  SubSeq(prev, 1, pos) \o <<n>> \o SubSeq(prev, pos + 1, Len(prev))

\* a faulty variant: the records of score 0 are not dropped
TopIndices_keep_zero(scores, top_k) ==
    FirstK(Ranked(scores, Len(scores)), top_k)

\* [i for i, s in ranked[:top_k] if s > 0]
TopIndices(scores, top_k) ==
    SelectSeq(FirstK(Ranked(scores, Len(scores)), top_k), LAMBDA i : scores[i] > 0)

\* the entries of data.json that become candidates; a missing or undecodable
\* file gives none
Candidates(data, category_filter) ==
    IF data.state = "ok"
    THEN SelectSeq(data.entries, LAMBDA e : KeepEntry(e, category_filter))
    ELSE <<>>

\* scores.append(len(q_tokens & item_tokens)) for each item
Scores(query, items) == [i \in 1..Len(items) |-> OverlapScore(query, items[i])]

\* top and top_meta, with the local lists items and scores as they are when
\* the function returns
Selected(items, metadatas, scores, top) ==
    [docs |-> [j \in 1..Len(top) |-> items[top[j]]],
     metas |-> [j \in 1..Len(top) |-> metadatas[top[j]]],
     items |-> items, scores |-> scores]

\* the part of local_retrieve after the early return for an empty item list
RankItems(query, top_k, items, metadatas, scores) ==
    Selected(items, metadatas, scores, TopIndices(scores, top_k))

\* the part of local_retrieve after data.json was read
RetrieveFrom(query, top_k, kept) ==
    IF kept = <<>>
    THEN [docs |-> <<>>, metas |-> <<>>, items |-> <<>>, scores |-> <<>>]
    ELSE RankItems(query, top_k,
                   [i \in 1..Len(kept) |-> Combined(kept[i])],
                   [i \in 1..Len(kept) |-> EntryMeta(kept[i])],
                   Scores(query, [i \in 1..Len(kept) |-> Combined(kept[i])]))

\* local_retrieve(query, top_k, category_filter) over the content of data.json
local_retrieve(data, query, top_k, category_filter) ==
    RetrieveFrom(query, top_k, Candidates(data, category_filter))

----------------------------------------------------------------------------
(* src/ingest.py and src/query.py: the Chroma collection qa_knowledge *)

\* a dataset entry; None marks an absent key
Entry(id, category, question, answer) ==
    [id |-> id, category |-> category, question |-> question, answer |-> answer]

\* data.json of the service: a Fees record and an Admissions record
ScenarioData ==
    [state |-> "ok",
     entries |-> << Entry(<<"1">>, <<"F","e","e","s">>, <<"W","h","a","t"," ","i","s"," ","t","u","i","t","i","o","n","?">>, <<"1","0","0","0","0"," ","p","e","r"," ","y","e","a","r">>),
                    Entry(<<"2">>, <<"A","d","m","i","s","s","i","o","n","s">>, <<"h","o","w"," ","t","o"," ","p","a","y">>, <<"p","a","y"," ","f","e","e","s"," ","o","n","l","i","n","e",".">>) >>]

\* the entries ingest.py read when the collection was built
IngestedEntries == ScenarioData.entries

\* ingest_json_data: the documents and metadatas added to the collection
Ingest(entries) ==
    LET kept == SelectSeq(entries,
                    LAMBDA e : EntryQuestion(e) # <<>> \/ EntryAnswer(e) # <<>>)
    IN  [i \in 1..Len(kept) |->
            [doc |-> Combined(kept[i]),
             meta |-> [source |-> <<"d","a","t","a",".","j","s","o","n">>,
                       qa_id |-> GetOr(kept[i].id, <<"u","n","k","n","o","w","n">>),
                       category |-> EntryCategory(kept[i]),
                       question |-> EntryQuestion(kept[i]),
                       answer |-> EntryAnswer(kept[i])]]]

\* the collection qa_knowledge of a store that answers queries, in the order
\* of distance to the query embedding: empty, or ingested from the dataset
Collection(store) == IF store = "ingested" THEN Ingest(IngestedEntries) ELSE <<>>

\* the documents and metadatas of a query result
Hits(results) ==
    [docs |-> [i \in 1..Len(results) |-> results[i].doc],
     metas |-> [i \in 1..Len(results) |-> results[i].meta]]

\* col.query: the first top_k documents, of the filter's category when
\* there is a filter
QueryResults(items, top_k, category_filter) ==
    FirstK(IF Truthy(category_filter)
           THEN SelectSeq(items, LAMBDA it : it.meta.category = category_filter)
           ELSE items,
           top_k)

\* retrieve_with_chroma: every failure (no client, no collection, a failing
\* query) is caught and gives ([], [])
retrieve_with_chroma(store, top_k, category_filter) ==
    IF store \in {"no_client", "no_collection", "query_error"}
    THEN [docs |-> <<>>, metas |-> <<>>]
    ELSE Hits(QueryResults(Collection(store), top_k, category_filter))

----------------------------------------------------------------------------
(* src/query.py: format_context and save_result *)

\* a faulty variant: the fragment names the qa_id of the result
Fragment_with_id(d, m) ==
    <<"[">> \o GetOr(m.qa_id, <<>>) \o <<"]"," ">> \o d \o <<"\n","-","-","-","\n">>

\* one fragment of format_context
Fragment(d, m) ==
    IF Truthy(m.category)
    THEN <<"C","a","t","e","g","o","r","y",":"," ">> \o m.category \o <<"\n">> \o d \o <<"\n","-","-","-","\n">>
    ELSE d \o <<"\n","-","-","-","\n">>

RECURSIVE Join(_, _)
\* sep.join(parts)
Join(parts, sep) ==
    IF parts = <<>> THEN <<>>
    ELSE IF Len(parts) = 1 THEN parts[1]
    ELSE parts[1] \o sep \o Join(Tail(parts), sep)

\* format_context(docs, metas): zip stops at the shorter list
format_context(docs, metas) ==
    Join([i \in 1..Min(Len(docs), Len(metas)) |-> Fragment(docs[i], metas[i])], <<"\n">>)

\* str(x) inside an f-string
Str(x) == IF x = None THEN <<"N","o","n","e">> ELSE x

\* the provenance tags of the retrieved metadata, as list(set(sources))
Sources(metas) ==
    {IF Truthy(metas[i].qa_id)
     THEN <<"Q","A","#">> \o metas[i].qa_id \o <<" ","(">> \o Str(metas[i].category) \o <<")">>
     ELSE metas[i].source :
        i \in {j \in 1..Len(metas) : Truthy(metas[j].qa_id) \/ Truthy(metas[j].source)}}

\* the list sources before list(set(sources)): one tag for each metadata that
\* has a qa_id or a source, in result order
SourceTags(metas) ==
    LET tagged == SelectSeq(metas, LAMBDA m : Truthy(m.qa_id) \/ Truthy(m.source))
    IN  [i \in 1..Len(tagged) |->
            IF Truthy(tagged[i].qa_id)
            THEN <<"Q","A","#">> \o tagged[i].qa_id \o <<" ","(">> \o Str(tagged[i].category) \o <<")">>
            ELSE tagged[i].source]

\* a faulty variant: the list is returned as it was built
SourceLists_as_built(metas) == {SourceTags(metas)}

\* list(set(sources)): the tags without duplicates, in the order the set
\* iterates, which Python leaves open
SourceLists(metas) ==
    LET tags == Range(SourceTags(metas))
    IN  {s \in [1..Cardinality(tags) -> tags] : Range(s) = tags}

\* save_result: the file content after the call.  A file holding a JSON list
\* gets the record appended, a file holding another JSON value v becomes
\* [v, record], an undecodable file becomes [record], as does a missing one
save_result(file, query, answer, sources, timestamp) ==
    LET current_result == [query |-> query, answer |-> answer,
                           sources |-> sources, timestamp |-> timestamp]
    IN  IF file.state \in {"list", "value"}
        THEN [state |-> "list", data |-> Append(file.data, current_result)]
        ELSE [state |-> "list", data |-> <<current_result>>]

----------------------------------------------------------------------------
(* api.py: the handlers *)

\* window_size of the memory of a session
SessionWindow == 10
\* top_k of the vector search
VectorTopK == 5
\* top_k of the keyword fallback
KeywordTopK == 3

\* a faulty variant: every request uses the default session
SessionKey_shared(session_id) == "default"

\* request.session_id or "default"; the empty string stands for null and ""
SessionKey(session_id) == IF session_id = "" THEN "default" ELSE session_id

\* get_session_memory: the session table after the call
get_session_memory(sessions, session_id) ==
    IF session_id \notin DOMAIN sessions
    THEN sessions @@ (session_id :> NewMemory(SessionWindow))
    ELSE sessions

\* one entry of the call trace of a request: the function called, its text
\* argument (the question, the category filter or the context) and a count
\* (embed: vectors returned; a retrieval: documents returned; generate:
\* interactions of history passed)
Call(op, arg, n) == [op |-> op, arg |-> arg, n |-> n]

\* a faulty variant: every search is followed by a second, unfiltered one
Broaden_always(docs, detected_category) == TRUE

\* a faulty variant: no second, unfiltered search after a filtered search found nothing
Broaden_never(docs, detected_category) == FALSE

\* if not docs and detected_category
Broaden(docs, detected_category) == docs = <<>> /\ Truthy(detected_category)

\* what the retrieval of a request ends with
Retrieved(found, not_found, trace) ==
    [docs |-> found.docs, metas |-> found.metas, not_found |-> not_found, trace |-> trace]

\* the try block after the second, unfiltered vector search
VectorSecond(question, detected_category, first, second) ==
    Retrieved(second, FALSE,
              << Call("embed", question, 1),
                 Call("retrieve_with_chroma", detected_category, Len(first.docs)),
                 Call("retrieve_with_chroma", None, Len(second.docs)) >>)

\* the try block after the first vector search: the search is repeated
\* without filter when a filtered search found nothing
VectorPath(question, detected_category, store, first) ==
    IF Broaden(first.docs, detected_category)
    THEN VectorSecond(question, detected_category, first,
                      retrieve_with_chroma(store, VectorTopK, None))
    ELSE Retrieved(first, FALSE,
                   << Call("embed", question, 1),
                      Call("retrieve_with_chroma", detected_category, Len(first.docs)) >>)

\* the except block after the second, unfiltered keyword search: the 404
\* when no document is left
KeywordSecond(question, detected_category, first, second) ==
    Retrieved(second, second.docs = <<>>,
              << Call("embed", question, 0),
                 Call("local_retrieve", detected_category, Len(first.docs)),
                 Call("local_retrieve", None, Len(second.docs)) >>)

\* the except block after the first keyword search: the same broadening
KeywordPath(question, detected_category, data, first) ==
    IF Broaden(first.docs, detected_category)
    THEN KeywordSecond(question, detected_category, first,
                       local_retrieve(data, question, KeywordTopK, None))
    ELSE Retrieved(first, first.docs = <<>>,
                   << Call("embed", question, 0),
                      Call("local_retrieve", detected_category, Len(first.docs)) >>)

\* the retrieval of ask_question: the vector attempt in the try block and,
\* when embed([question])[0] raises, the keyword fallback of the except block.
\* embed returns [] on every backend error, so [0] raises IndexError;
\* retrieve_with_chroma never raises.
Retrieve(question, detected_category, env, data) ==
    IF env.embed_ok
    THEN VectorPath(question, detected_category, env.store,
                    retrieve_with_chroma(env.store, VectorTopK, detected_category))
    ELSE KeywordPath(question, detected_category, data,
                     local_retrieve(data, question, KeywordTopK, detected_category))

\* a faulty variant: the question is not validated
IsBlank_never(question) == FALSE

\* not request.question or not request.question.strip()
IsBlank(question) == ~Truthy(question) \/ strip(question, Whitespace) = <<>>

\* what a request ends with: the session table, the results file and the
\* record of the request
Outcome(sessions, file, request, env, status, category, found, trace, answer, sources, memory_size) ==
    [sessions |-> sessions, file |-> file,
     last |-> [request |-> request, env |-> env, status |-> status, trace |-> trace,
               docs |-> found.docs, metas |-> found.metas, category |-> category,
               answer |-> answer, sources |-> sources, memory_size |-> memory_size]]

NoDocuments == [docs |-> <<>>, metas |-> <<>>]

\* the calls a request made up to and including generate
TraceToGenerate(request, found, ctx, history) ==
    (IF request.use_memory THEN << Call("get_session_memory", None, 0) >> ELSE <<>>)
    \o found.trace \o << Call("generate", ctx, Len(history)) >>

\* the statements after generate returned: the memory update under
\* "if memory", the sources, save_result and the response
Answered(request, env, question, session_id, sessions, detected_category, found, memory_truthy, trace, remembered) ==
    Outcome(remembered,
            save_result(results_file, question, env.generate, Sources(found.metas), now + 1),
            request, env, 200, detected_category, found,
            trace \o (IF memory_truthy THEN << Call("add_interaction", question, 0) >> ELSE <<>>)
                  \o << Call("save_result", question, 0) >>,
            env.generate, Sources(found.metas),
            IF request.use_memory /\ MemoryTruthy(remembered[session_id])
            THEN MemoryLen(remembered[session_id]) ELSE 0)

\* a faulty variant: a failed generation is written to the results file
Generate_logs_failure(request, env, question, session_id, sessions, detected_category, found, memory_truthy, trace) ==
    IF env.generate = "raise"
    THEN Outcome(sessions, save_result(results_file, question, "", {}, now + 1),
                 request, env, 500, detected_category, found, trace, "", {}, 0)
    ELSE Answered(request, env, question, session_id, sessions, detected_category, found,
                  memory_truthy, trace, sessions)

\* the call of generate with the history read under "if memory"; an exception
\* of generate ends the request with status 500
Generate(request, env, question, session_id, sessions, detected_category, found, memory_truthy, trace) ==
    IF env.generate = "raise"
    THEN Outcome(sessions, results_file, request, env, 500, detected_category, found,
                 trace, "", {}, 0)
    ELSE Answered(request, env, question, session_id, sessions, detected_category, found,
                  memory_truthy, trace,
                  IF memory_truthy
                  THEN [sessions EXCEPT ![session_id] = add_interaction(@, question, env.generate)]
                  ELSE sessions)

\* the statements after the retrieval: the 404 of the except block, else the
\* prompt and the history.  "memory" is truthy only for a memory that
\* already holds an interaction
AfterRetrieval(request, env, question, session_id, sessions, detected_category, found, memory_truthy) ==
    IF found.not_found
    THEN Outcome(sessions, results_file, request, env, 404, detected_category, found,
                 (IF request.use_memory THEN << Call("get_session_memory", None, 0) >> ELSE <<>>)
                 \o found.trace, "", {}, 0)
    ELSE Generate(request, env, question, session_id, sessions, detected_category, found,
                  memory_truthy,
                  TraceToGenerate(request, found, format_context(found.docs, found.metas),
                                  IF memory_truthy THEN get_history(sessions[session_id]) ELSE <<>>))

\* the statements from the category detection on
AfterSession(request, env, question, session_id, sessions, detected_category) ==
    AfterRetrieval(request, env, question, session_id, sessions, detected_category,
                   Retrieve(question, detected_category, env, data_json),
                   request.use_memory /\ MemoryTruthy(sessions[session_id]))

\* the statements after the validation of the question
Validated(request, env, question, session_id) ==
    AfterSession(request, env, question, session_id,
                 IF request.use_memory
                 THEN get_session_memory(conversation_sessions, session_id)
                 ELSE conversation_sessions,
                 IF Truthy(request.category) THEN request.category
                 ELSE detect_category(question))

\* the handler of POST /ask as a function of the state, the request and the
\* outcomes of the external calls
Handled(request, env) ==
    IF IsBlank(request.question)
    THEN Outcome(conversation_sessions, results_file, request, env, 400, None,
                 NoDocuments, <<>>, "", {}, 0)
    ELSE Validated(request, env, strip(request.question, Whitespace),
                   SessionKey(request.session_id))

\* the state after a request
Respond(outcome) ==
    /\ conversation_sessions' = outcome.sessions
    /\ results_file' = outcome.file
    /\ last' = outcome.last

\* POST /ask
ask_question(request, env) ==
    /\ now' = now + 1
    /\ UNCHANGED <<memory, added, data_json, lr>>
    /\ \E outcome \in {Handled(request, env)} : Respond(outcome)

\* POST /clear-memory: the memory of an existing session is emptied; for an
\* unknown session nothing changes
clear_conversation_memory(session_id_field) ==
    LET session_id == SessionKey(session_id_field)
    IN  /\ conversation_sessions' =
               IF session_id \in DOMAIN conversation_sessions
               THEN [conversation_sessions EXCEPT ![session_id] = clear(@)]
               ELSE conversation_sessions
        /\ UNCHANGED <<results_file, now, last, memory, added, data_json, lr>>

\* a faulty variant: every session is deleted
delete_session_all(session_id) ==
    /\ conversation_sessions' = <<>>
    /\ UNCHANGED <<results_file, now, last, memory, added, data_json, lr>>

\* DELETE /sessions/{session_id}: for an unknown session nothing changes
delete_session(session_id) ==
    /\ conversation_sessions' =
           [s \in DOMAIN conversation_sessions \ {session_id} |-> conversation_sessions[s]]
    /\ UNCHANGED <<results_file, now, last, memory, added, data_json, lr>>

----------------------------------------------------------------------------
(* The inputs of the model *)

\* a dataset with ties, a record without category, one without id, one that
\* shares no token with the queries, a blank one
RankData ==
    [state |-> "ok",
     entries |-> << Entry(None, <<"F","e","e","s">>, <<"a">>, None),
                    Entry(<<"1">>, <<"F","e","e","s">>, <<"a">>, <<"b",".">>),
                    Entry(<<"2">>, None, <<" ","b"," ","a">>, <<"(","a",")">>),
                    Entry(<<"3">>, <<"G","e","n","e","r","a","l">>, <<"c">>, None),
                    Entry(<<"4">>, <<"F","e","e","s">>, <<" ">>, None),
                    Entry(<<"5">>, <<"G","e","n","e","r","a","l">>, <<"B">>, <<"a",".">>) >>]

\* data.json absent, undecodable, empty, or one of the two datasets
Datasets ==
    { [state |-> "missing", entries |-> <<>>],
      [state |-> "malformed", entries |-> <<>>],
      [state |-> "ok", entries |-> <<>>],
      RankData, ScenarioData }

\* the vector store: no client, no collection qa_knowledge, a failing query,
\* an empty collection, or the collection ingest.py builds from data.json
Stores == {"no_client", "no_collection", "query_error", "empty", "ingested"}

\* the outcomes of embed, the vector store and generate during one request.
\* The store is queried only after embed returned a vector; when embed fails
\* it is enough to tell a store that is down from one that is up
Environments ==
    [embed_ok : {TRUE}, store : Stores, generate : {"raise", "A1"}]
    \cup [embed_ok : {FALSE}, store : {"no_collection", "ingested"}, generate : {"raise", "A1"}]

\* matches the Fees record of ScenarioData on "is" and "tuition?"
TuitionQuestion == <<"H","o","w"," ","m","u","c","h"," ","i","s"," ","t","u","i","t","i","o","n","?">>

\* detected as Fees ("pay"), and shares tokens with the Admissions record only
PayQuestion == <<" ","h","o","w"," ","t","o"," ","p","a","y"," ">>

\* the question fields: empty, whitespace only, the two above, a token that
\* differs from a record token by a full stop, and one that matches nothing
Questions ==
    { <<>>, <<" ","\n">>, TuitionQuestion, PayQuestion, <<"f","e","e","s",".">>, <<"z","z">> }

\* the bodies of POST /ask
Requests ==
    [question : Questions, session_id : {"", "s1"},
     category : {None, <<"G","e","n","e","r","a","l">>}, use_memory : BOOLEAN]

\* the session_id fields of POST /clear-memory
ClearKeys == {"", "default", "s1"}

\* the path parameters of DELETE /sessions/{session_id}
DeleteKeys == {"default", "s1"}

NoRequest ==
    [request |-> [question |-> <<>>, session_id |-> "", category |-> None, use_memory |-> FALSE],
     env |-> [embed_ok |-> FALSE, store |-> "no_client",
              generate |-> "raise"],
     status |-> 0, trace |-> <<>>, docs |-> <<>>, metas |-> <<>>, category |-> None,
     answer |-> "", sources |-> {}, memory_size |-> 0]

\* no function applied, no request handled
NoApplication == [called |-> FALSE]

NoOp == [kind |-> "none", key |-> ""]

NoCall ==
    [called |-> FALSE, query |-> <<>>, top_k |-> 0, category_filter |-> None,
     docs |-> <<>>, metas |-> <<>>, items |-> <<>>, scores |-> <<>>]

----------------------------------------------------------------------------
(* The service: requests arrive one at a time; no handler awaits, so each
   runs to completion on the event loop *)

Init ==
    /\ conversation_sessions = <<>>
    /\ results_file = [state |-> "absent", data |-> <<>>]
    /\ now = 0
    /\ last = NoRequest
    /\ memory = NewMemory(1)
    /\ added = <<>>
    /\ data_json = ScenarioData
    /\ lr = NoCall
    /\ applied = NoApplication
    /\ served = NoOp
    /\ referenced = {}

Ask ==
    /\ now < MaxRequests
    /\ \E request \in Requests, env \in Environments : ask_question(request, env)
    /\ UNCHANGED <<applied, served, referenced>>

ClearMemory ==
    /\ \E session_id \in ClearKeys : clear_conversation_memory(session_id)
    /\ UNCHANGED <<applied, served, referenced>>

DeleteSession ==
    /\ \E session_id \in DeleteKeys : delete_session(session_id)
    /\ UNCHANGED <<applied, served, referenced>>

Next == Ask \/ ClearMemory \/ DeleteSession

Spec == Init /\ [][Next]_vars

----------------------------------------------------------------------------
(* A ConversationMemory object on its own, under add_interaction and clear *)

MemQuestions == { <<"q","1">>, <<"q","2">> }

MemAnswers == {"A1"}

InitMemory ==
    /\ conversation_sessions = <<>>
    /\ results_file = [state |-> "absent", data |-> <<>>]
    /\ now = 0
    /\ last = NoRequest
    /\ \E w \in 1..MaxWindow : memory = NewMemory(w)
    /\ added = <<>>
    /\ data_json = ScenarioData
    /\ lr = NoCall
    /\ applied = NoApplication
    /\ served = NoOp
    /\ referenced = {}

MemoryAdd ==
    \E question \in MemQuestions, answer \in MemAnswers :
        /\ Len(added) < MaxAdds
        /\ memory' = add_interaction(memory, question, answer)
        /\ added' = Append(added, [question |-> question, answer |-> answer])
        /\ UNCHANGED <<conversation_sessions, results_file, now, last, data_json, lr>>
        /\ UNCHANGED <<applied, served, referenced>>

MemoryClear ==
    /\ memory' = clear(memory)
    /\ added' = <<>>
    /\ UNCHANGED <<conversation_sessions, results_file, now, last, data_json, lr>>
    /\ UNCHANGED <<applied, served, referenced>>

NextMemory == MemoryAdd \/ MemoryClear

SpecMemory == InitMemory /\ [][NextMemory]_vars

----------------------------------------------------------------------------
(* local_retrieve on its own, over every dataset, query, top_k and filter *)

QueryAlphabet == {"a", "B", " ", "."}

RECURSIVE TextsUpTo(_)
TextsUpTo(n) ==
    IF n = 0 THEN {<<>>}
    ELSE LET shorter == TextsUpTo(n - 1)
         IN  shorter \cup {Append(t, c) : t \in shorter, c \in QueryAlphabet}

QueryTexts == TextsUpTo(MaxQueryLen)

Filters == {None, <<>>, <<"F","e","e","s">>, <<"G","e","n","e","r","a","l">>}

\* the arguments are drawn in the initial state and the function is applied
\* to them by the one step LocalRetrieve
InitRetrieve ==
    /\ conversation_sessions = <<>>
    /\ results_file = [state |-> "absent", data |-> <<>>]
    /\ now = 0
    /\ last = NoRequest
    /\ memory = NewMemory(1)
    /\ added = <<>>
    /\ data_json \in Datasets
    /\ \E query \in QueryTexts, top_k \in 0..MaxTopK, category_filter \in Filters :
           lr = [NoCall EXCEPT !.query = query, !.top_k = top_k,
                               !.category_filter = category_filter]
    /\ applied = NoApplication
    /\ served = NoOp
    /\ referenced = {}

Returned(call, r) ==
    [call EXCEPT !.called = TRUE, !.docs = r.docs, !.metas = r.metas,
                 !.items = r.items, !.scores = r.scores]

LocalRetrieve ==
    /\ ~lr.called
    /\ lr' = Returned(lr, local_retrieve(data_json, lr.query, lr.top_k, lr.category_filter))
    /\ UNCHANGED <<conversation_sessions, results_file, now, last, memory, added, data_json>>
    /\ UNCHANGED <<applied, served, referenced>>

NextRetrieve == LocalRetrieve

SpecRetrieve == InitRetrieve /\ [][NextRetrieve]_vars

----------------------------------------------------------------------------
(* detect_category on its own, over questions made of keywords *)

\* longest question, in words
MaxWords == 2

\* keywords of several categories in either case, keywords that hold another
\* keyword ("payment", "summer course", "CGPA", "email"), and a word that is
\* no keyword
DetectWords ==
    { <<"a","p","p","l","y">>, <<"P","a","y","m","e","n","t">>, <<"f","e","e">>, <<"C","G","P","A">>, <<"s","u","m","m","e","r"," ","c","o","u","r","s","e">>, <<"C","o","u","r","s","e">>,
      <<"e","m","a","i","l">>, <<"l","o","g","i","n">>, <<"x","y">> }

\* the texts of at most n words, each followed by a space
RECURSIVE PhrasesUpTo(_)
PhrasesUpTo(n) ==
    IF n = 0 THEN {<<>>}
    ELSE LET shorter == PhrasesUpTo(n - 1)
         IN  shorter \cup {t \o w \o <<" ">> : t \in shorter, w \in DetectWords}

InitDetect ==
    /\ conversation_sessions = <<>>
    /\ results_file = [state |-> "absent", data |-> <<>>]
    /\ now = 0
    /\ last = NoRequest
    /\ memory = NewMemory(1)
    /\ added = <<>>
    /\ data_json = ScenarioData
    /\ lr = NoCall
    /\ \E query \in PhrasesUpTo(MaxWords) :
           applied = [called |-> FALSE, query |-> query, category |-> None]
    /\ served = NoOp
    /\ referenced = {}

DetectCategory ==
    /\ ~applied.called
    /\ applied' = [applied EXCEPT !.called = TRUE, !.category = detect_category(applied.query)]
    /\ UNCHANGED <<conversation_sessions, results_file, now, last, memory, added,
                   data_json, lr, served, referenced>>

NextDetect == DetectCategory

SpecDetect == InitDetect /\ [][NextDetect]_vars

----------------------------------------------------------------------------
(* The sources of a response on their own, over lists of result metadata *)

\* longest list of retrieved results
MaxResults == 2

\* the metadata of a result, as far as the sources read it: qa_id, category
\* and source may each be absent, and qa_id and source may be empty
ResultMetas ==
    [qa_id : {None, <<>>, <<"1">>, <<"2">>},
     category : {None, <<"F","e","e","s">>, <<"G","e","n","e","r","a","l">>},
     source : {None, <<>>, <<"d","a","t","a",".","j","s","o","n">>}]

RECURSIVE ListsUpTo(_, _)
ListsUpTo(S, n) ==
    IF n = 0 THEN {<<>>}
    ELSE LET shorter == ListsUpTo(S, n - 1)
         IN  shorter \cup {Append(l, x) : l \in shorter, x \in S}

InitSources ==
    /\ conversation_sessions = <<>>
    /\ results_file = [state |-> "absent", data |-> <<>>]
    /\ now = 0
    /\ last = NoRequest
    /\ memory = NewMemory(1)
    /\ added = <<>>
    /\ data_json = ScenarioData
    /\ lr = NoCall
    /\ \E metas \in ListsUpTo(ResultMetas, MaxResults) :
           applied = [called |-> FALSE, metas |-> metas, sources |-> <<>>]
    /\ served = NoOp
    /\ referenced = {}

ExtractSources ==
    /\ ~applied.called
    /\ \E sources \in SourceLists(applied.metas) :
           applied' = [applied EXCEPT !.called = TRUE, !.sources = sources]
    /\ UNCHANGED <<conversation_sessions, results_file, now, last, memory, added,
                   data_json, lr, served, referenced>>

NextSources == ExtractSources

SpecSources == InitSources /\ [][NextSources]_vars

----------------------------------------------------------------------------
(* format_context on its own, over two retrieval results that hold the same
   documents and categories *)

ContextDocs == { <<"d">>, <<"e">> }

\* the metadata of a result: with or without qa_id and category, from
\* data.json or from a PDF
ContextMetas ==
    [qa_id : {None, <<"7">>}, category : {None, <<"F","e","e","s">>},
     source : {<<"d","a","t","a",".","j","s","o","n">>, <<"a",".","p","d","f">>}]

\* two metadata of the same category
AgreeingPairs == {ab \in ContextMetas \X ContextMetas : ab[1].category = ab[2].category}

\* the pairs of metadata lists of n results that agree on each category
RECURSIVE AgreeingMetas(_)
AgreeingMetas(n) ==
    IF n = 0 THEN {<< <<>>, <<>> >>}
    ELSE {<<Append(p[1], ab[1]), Append(p[2], ab[2])>> :
              p \in AgreeingMetas(n - 1), ab \in AgreeingPairs}

InitContext ==
    /\ conversation_sessions = <<>>
    /\ results_file = [state |-> "absent", data |-> <<>>]
    /\ now = 0
    /\ last = NoRequest
    /\ memory = NewMemory(1)
    /\ added = <<>>
    /\ data_json = ScenarioData
    /\ lr = NoCall
    /\ \E docs \in ListsUpTo(ContextDocs, MaxResults) :
           \E pair \in AgreeingMetas(Len(docs)) :
               applied = [called |-> FALSE, docs |-> docs,
                          metas |-> pair[1], other_metas |-> pair[2],
                          ctx |-> <<>>, other_ctx |-> <<>>]
    /\ served = NoOp
    /\ referenced = {}

FormatContext ==
    /\ ~applied.called
    /\ applied' = [applied EXCEPT !.called = TRUE,
                                  !.ctx = format_context(applied.docs, applied.metas),
                                  !.other_ctx = format_context(applied.docs, applied.other_metas)]
    /\ UNCHANGED <<conversation_sessions, results_file, now, last, memory, added,
                   data_json, lr, served, referenced>>

NextContext == FormatContext

SpecContext == InitContext /\ [][NextContext]_vars

----------------------------------------------------------------------------
(* The service over several requests on two sessions, started with a results
   file in any condition.  `served` and `referenced` record what was asked of
   the service; they are written from the requests alone. *)

\* number of /ask requests in one behaviour of the session lifecycle
MaxLifecycleRequests == 2

\* an entry of the results file written before the service started
EarlierEntry ==
    [query |-> <<"e","a","r","l","i","e","r">>, answer |-> "A0", sources |-> {}, timestamp |-> 0]

\* the results file at startup: absent, a JSON list of entries, a single
\* JSON object outside a list, or text that json.load cannot decode (the
\* entries of a file whose last write was cut short)
LogFiles ==
    { [state |-> "absent", data |-> <<>>],
      [state |-> "list", data |-> <<EarlierEntry>>],
      [state |-> "value", data |-> <<EarlierEntry>>],
      [state |-> "undecodable", data |-> <<EarlierEntry>>] }

LifecycleRequests ==
    [question : { <<" ","\n">>, TuitionQuestion }, session_id : {"", "s1"},
     category : {None}, use_memory : BOOLEAN]

\* all backends up, a generator that raises, and embed down with the
\* keyword fallback answering
LifecycleEnvironments ==
    { [embed_ok |-> TRUE, store |-> "ingested", generate |-> "A1"],
      [embed_ok |-> TRUE, store |-> "ingested", generate |-> "raise"],
      [embed_ok |-> FALSE, store |-> "no_collection", generate |-> "A1"] }

\* the session key a request names
Named(session_id) == IF session_id = "" THEN "default" ELSE session_id

InitLifecycle ==
    /\ conversation_sessions = <<>>
    /\ results_file \in LogFiles
    /\ now = 0
    /\ last = NoRequest
    /\ memory = NewMemory(1)
    /\ added = <<>>
    /\ data_json = ScenarioData
    /\ lr = NoCall
    /\ applied = NoApplication
    /\ served = NoOp
    /\ referenced = {}

AskLifecycle ==
    /\ now < MaxLifecycleRequests
    /\ \E request \in LifecycleRequests, env \in LifecycleEnvironments :
           /\ ask_question(request, env)
           /\ served' = [kind |-> "ask", key |-> Named(request.session_id)]
           /\ referenced' =
                  IF /\ request.use_memory
                     /\ \E i \in 1..Len(request.question) : request.question[i] \notin Whitespace
                  THEN referenced \cup {Named(request.session_id)}
                  ELSE referenced
    /\ UNCHANGED applied

ClearLifecycle ==
    /\ \E session_id \in ClearKeys :
           /\ clear_conversation_memory(session_id)
           /\ served' = [kind |-> "clear", key |-> Named(session_id)]
    /\ UNCHANGED <<applied, referenced>>

DeleteLifecycle ==
    /\ \E session_id \in DeleteKeys :
           /\ delete_session(session_id)
           /\ served' = [kind |-> "delete", key |-> session_id]
           /\ referenced' = referenced \ {session_id}
    /\ UNCHANGED applied

NextLifecycle == AskLifecycle \/ ClearLifecycle \/ DeleteLifecycle

SpecLifecycle == InitLifecycle /\ [][NextLifecycle]_vars

----------------------------------------------------------------------------
(* Properties *)

\* the request of `last` has been handled
Handling == last.status # 0

\* a text that is empty or holds whitespace only
OnlyWhitespace(text) == \A i \in 1..Len(text) : text[i] \in Whitespace

\* the question is not blank, so the request got past the validation
Asked == Handling /\ ~OnlyWhitespace(last.request.question)

Called(op) == \E i \in 1..Len(last.trace) : last.trace[i].op = op

StoreUnavailable(store) == store \in {"no_client", "no_collection", "query_error"}

(* C1: the generator is never invoked when retrieval ended with zero
   documents; such a request ends with the not-found error.  Stated for the
   request recorded in `last`: if it got past validation and its document
   list is empty, its status is 404 and its trace holds no generate call. *)
C1_NoGenerateWithoutDocuments ==
    (Asked /\ last.docs = <<>>) => (last.status = 404 /\ ~Called("generate"))

(* C2: after an /ask with use_memory set that ends with status 200, the
   (question, answer) pair is the newest interaction of the session's memory,
   whatever the memory held before (also nothing, also no session), and the
   returned memory_size is the previous size plus one, capped at the window. *)
C2_AnswerIsRemembered ==
    [][(now' # now /\ last'.status = 200 /\ last'.request.use_memory) =>
          LET key == SessionKey(last'.request.session_id)
              before == IF key \in DOMAIN conversation_sessions
                        THEN Len(conversation_sessions[key].history) ELSE 0
              after == conversation_sessions'[key].history
          IN  /\ after # <<>>
              /\ after[Len(after)] =
                     [question |-> strip(last'.request.question, Whitespace),
                      answer |-> last'.answer]
              /\ last'.memory_size = Min(before + 1, SessionWindow)]_vars

(* C3: when the vector store is unavailable the request is served by the
   keyword fallback, whether or not embed succeeded: local_retrieve is
   called, and the tuition question is answered from the Fees record, with
   sources = ["QA#1 (Fees)"]. *)
C3_UnavailableStoreFallsBackToKeywords ==
    (Asked /\ StoreUnavailable(last.env.store)) =>
        /\ Called("local_retrieve")
        /\ (last.request.question = TuitionQuestion /\ last.status = 200)
               => last.sources = { <<"Q","A","#","1"," ","(","F","e","e","s",")">> }

(* C4: a ConversationMemory of capacity W > 0 never holds more than W
   interactions, in any state add_interaction and clear can reach. *)
C4_MemoryWithinWindow ==
    memory.window_size > 0 => MemoryLen(memory) <= memory.window_size

\* an add_interaction evicted the oldest interaction of a full memory
C4_Witness ==
    /\ Len(added) > memory.window_size
    /\ MemoryLen(memory) = memory.window_size

(* C5: after n add_interaction calls on a fresh or just cleared memory of
   capacity W > 0, get_history is the last min(n, W) added interactions,
   oldest first. *)
C5_HistoryIsLastAdded ==
    LET n == Len(added)
        k == IF n < memory.window_size THEN n ELSE memory.window_size
    IN  get_history(memory) = [i \in 1..k |-> added[n - k + i]]

\* W = 2 and three adds leave the second and the third pair, in that order
C5_Witness ==
    /\ memory.window_size = 2
    /\ Len(added) = 3
    /\ added[1] # added[2]
    /\ get_history(memory) = << added[2], added[3] >>

(* C6: broaden-on-miss.  With an effective category filter F, when the
   search filtered by F finds nothing and the search without filter finds
   documents, the request goes on with the unfiltered documents: it does not
   end with 404, the generator is called, and the request ends with 200
   unless the generator raises.  On the vector path when embed succeeded, on
   the keyword path when it failed. *)
C6_BroadenOnMiss ==
    (Asked /\ Truthy(last.category)) =>
        LET question == strip(last.request.question, Whitespace)
            filtered == IF last.env.embed_ok
                        THEN retrieve_with_chroma(last.env.store, VectorTopK, last.category).docs
                        ELSE local_retrieve(data_json, question, KeywordTopK, last.category).docs
            unfiltered == IF last.env.embed_ok
                          THEN retrieve_with_chroma(last.env.store, VectorTopK, None).docs
                          ELSE local_retrieve(data_json, question, KeywordTopK, None).docs
        IN  (filtered = <<>> /\ unfiltered # <<>>) =>
                /\ last.docs = unfiltered
                /\ last.status # 404
                /\ Called("generate")
                /\ (last.env.generate # "raise" => last.status = 200)

\* a request answered from the unfiltered vector search after its filter,
\* General, matched no document of the collection
C6_Witness ==
    /\ last.status = 200
    /\ last.env.embed_ok
    /\ last.category = <<"G","e","n","e","r","a","l">>
    /\ retrieve_with_chroma(last.env.store, VectorTopK, last.category).docs = <<>>
    /\ Len(last.docs) = 2

(* C7: a request whose question is empty or whitespace only ends with
   status 400 before any other step: its trace holds no call (no session
   lookup, no embed, no search, no generate), and the session table and the
   results file are left as they were. *)
C7_BlankQuestionRejectedFirst ==
    [][(now' # now /\ OnlyWhitespace(last'.request.question)) =>
          /\ last'.status = 400
          /\ last'.trace = <<>>
          /\ UNCHANGED <<conversation_sessions, results_file>>]_vars

\* a whitespace-only question with use_memory set was rejected and its
\* session was not created
C7_Witness ==
    /\ last.status = 400
    /\ last.request.question # <<>>
    /\ last.request.use_memory
    /\ SessionKey(last.request.session_id) \notin DOMAIN conversation_sessions

\* the candidates local_retrieve builds for the call recorded in lr
CallCandidates ==
    IF data_json.state = "ok"
    THEN SelectSeq(data_json.entries, LAMBDA e : KeepEntry(e, lr.category_filter))
    ELSE <<>>

\* candidate j is ranked before candidate i: a larger score, or the same
\* score and an earlier place in the dataset
Before(scores, j, i) == scores[j] > scores[i] \/ (scores[j] = scores[i] /\ j < i)

\* the place of candidate i in the ranking
Place(scores, i) == 1 + Cardinality({j \in 1..Len(scores) : Before(scores, j, i)})

(* C8: local_retrieve returns the first top_k candidates in the order of
   descending overlap score, ties in dataset order, without the candidates
   of score 0: the candidate at place p of the ranking is the p-th result
   when p <= top_k and its score is positive, and there is no other result.
   So there are at most top_k results, none of score 0, and none at all when
   no candidate shares a token with the query. *)
C8_TopKPositiveInRankOrder ==
    lr.called =>
        LET cands == CallCandidates
            scores == [i \in 1..Len(cands) |-> OverlapScore(lr.query, Combined(cands[i]))]
            chosen == {i \in 1..Len(cands) : scores[i] > 0 /\ Place(scores, i) <= lr.top_k}
        IN  /\ Len(lr.docs) = Cardinality(chosen)
            /\ Len(lr.metas) = Cardinality(chosen)
            /\ \A i \in chosen :
                   /\ lr.docs[Place(scores, i)] = Combined(cands[i])
                   /\ lr.metas[Place(scores, i)] = EntryMeta(cands[i])
            /\ Len(lr.docs) <= lr.top_k
            /\ ((\A i \in 1..Len(cands) : scores[i] = 0) => lr.docs = <<>>)

\* a call that filled top_k >= 2 places, left out a candidate of positive
\* score that stands earlier in the dataset than a returned one, and had a
\* candidate of score 0
C8_Witness ==
    /\ lr.called
    /\ lr.top_k >= 2
    /\ Len(lr.docs) = lr.top_k
    /\ \E i, j \in 1..Len(lr.items) :
           /\ i < j
           /\ lr.scores[i] > 0
           /\ lr.scores[i] < lr.scores[j]
           /\ lr.items[i] \notin Range(lr.docs)
           /\ lr.items[j] \in Range(lr.docs)
    /\ \E e \in Range(data_json.entries) :
           KeepEntry(e, lr.category_filter) /\ OverlapScore(lr.query, Combined(e)) = 0

\* the tokens of a text as the claim builds them, for the query as for a
\* record: split on whitespace, lowercased, punctuation stripped
StrippedTokens(text) == {strip(lower(w), Punctuation) : w \in Range(split(text))}

(* C9: the score of a record is the number of tokens its combined text
   shares with the query, both token sets built the same way (split on
   whitespace, lowercased, the characters . , ( ) " stripped), so that the
   query token "fees." matches the record token "fees". *)
C9_ScoreStripsBothSides ==
    lr.called =>
        \A i \in 1..Len(lr.items) :
            lr.scores[i] =
                Cardinality(StrippedTokens(lr.query) \cap StrippedTokens(lr.items[i]))

(* C10: with a category filter, every record local_retrieve returns has
   that category, a record without category field counting as General. *)
C10_ResultsHaveFilterCategory ==
    (lr.called /\ Truthy(lr.category_filter)) =>
        /\ \A i \in 1..Len(lr.metas) : lr.metas[i].category = lr.category_filter
        /\ \A i \in 1..Len(lr.docs) :
               \E e \in Range(data_json.entries) :
                   /\ lr.docs[i] = Combined(e)
                   /\ (IF e.category = None THEN <<"G","e","n","e","r","a","l">> ELSE e.category)
                          = lr.category_filter

\* a call filtered by General that returned the record without category
\* field, while a Fees record shared a token with the query
C10_Witness ==
    /\ lr.called
    /\ lr.category_filter = <<"G","e","n","e","r","a","l">>
    /\ \E i \in 1..Len(lr.metas) : lr.metas[i].qa_id = <<"2">>
    /\ \E e \in Range(data_json.entries) :
           e.category = <<"F","e","e","s">> /\ OverlapScore(lr.query, Combined(e)) > 0

\* the number of keywords of the i-th declared category that occur in the
\* question, letter case ignored
Occurring(i, question) ==
    Cardinality({k \in 1..Len(category_keywords[i].keywords) :
                     \E at \in 0..Len(question) :
                         /\ at + Len(category_keywords[i].keywords[k]) <= Len(question)
                         /\ \A c \in 1..Len(category_keywords[i].keywords[k]) :
                                lower(<<question[at + c]>>) =
                                    <<category_keywords[i].keywords[k][c]>>})

(* C11: detect_category returns the category with the largest number of
   keywords occurring in the question as substrings, letter case ignored;
   among categories of equal count the first declared; None when no keyword
   occurs.  A question with keywords of one category only gives that
   category. *)
C11_DetectCategoryIsFirstMaximum ==
    applied.called =>
        LET n == Len(category_keywords)
            hit == {i \in 1..n : Occurring(i, applied.query) > 0}
        IN  /\ hit = {} => applied.category = None
            /\ \A i \in hit :
                   (/\ \A j \in 1..n : Occurring(j, applied.query) <= Occurring(i, applied.query)
                    /\ \A j \in 1..(i - 1) : Occurring(j, applied.query) < Occurring(i, applied.query))
                   => applied.category = category_keywords[i].category
            /\ \A i \in hit : hit = {i} => applied.category = category_keywords[i].category
            /\ applied.category # None => \E i \in hit : applied.category = category_keywords[i].category

\* "apply ... fee": Admissions and Fees have one keyword each, the question
\* names Fees first, and Admissions, declared first, is returned
C11_Witness ==
    /\ applied.called
    /\ applied.query = <<"f","e","e"," ","a","p","p","l","y"," ">>
    /\ applied.category = <<"A","d","m","i","s","s","i","o","n","s">>

\* the provenance tag of a result, if it has one
HasTag(m) == (m.qa_id # None /\ m.qa_id # <<>>) \/ (m.source # None /\ m.source # <<>>)

TagOf(m) ==
    IF m.qa_id # None /\ m.qa_id # <<>>
    THEN <<"Q","A","#">> \o m.qa_id \o <<" ","(">> \o (IF m.category = None THEN <<"N","o","n","e">> ELSE m.category) \o <<")">>
    ELSE m.source

(* C12: the sources of a response are the provenance tags of the retrieved
   results, each once: a result with a non-empty qa_id gives
   "QA#{qa_id} ({category})", one without qa_id and with a source gives the
   source, one with neither gives nothing, and results with the same qa_id
   and category give one string.  The set the handler puts in the response
   is the set of the strings of that list. *)
C12_SourcesAreDistinctTags ==
    applied.called =>
        LET metas == applied.metas
            sources == applied.sources
        IN  /\ \A i \in 1..Len(metas) : HasTag(metas[i]) => TagOf(metas[i]) \in Range(sources)
            /\ \A j \in 1..Len(sources) :
                   \E i \in 1..Len(metas) : HasTag(metas[i]) /\ sources[j] = TagOf(metas[i])
            /\ \A j, k \in 1..Len(sources) : sources[j] = sources[k] => j = k
            /\ Range(sources) = Sources(metas)

\* two results with qa_id 1 and category Fees that differ in their source
\* gave the one string "QA#1 (Fees)"
C12_Witness ==
    /\ applied.called
    /\ Len(applied.metas) = 2
    /\ applied.metas[1] # applied.metas[2]
    /\ applied.metas[1].qa_id = <<"1">> /\ applied.metas[2].qa_id = <<"1">>
    /\ applied.metas[1].category = <<"F","e","e","s">> /\ applied.metas[2].category = <<"F","e","e","s">>
    /\ applied.sources = << <<"Q","A","#","1"," ","(","F","e","e","s",")">> >>

\* the context the claim describes for documents of the given categories: a
\* "Category:" line where there is a category, the text, a "---" line, and
\* a newline between two results
RECURSIVE ClaimedContext(_, _)
ClaimedContext(docs, categories) ==
    IF docs = <<>> THEN <<>>
    ELSE (IF categories[1] # None
          THEN <<"C","a","t","e","g","o","r","y",":"," ">> \o categories[1] \o <<"\n">> ELSE <<>>)
         \o docs[1] \o <<"\n","-","-","-","\n">>
         \o (IF Len(docs) > 1 THEN <<"\n">> ELSE <<>>)
         \o ClaimedContext(Tail(docs), Tail(categories))

(* C13: the context format_context builds depends on the document texts and
   the categories only: two results with the same documents and categories,
   whatever their qa_id and source, give the same context, which is the one
   made of the "Category:" lines, the texts and the separators, and holds
   neither a qa_id nor a source name. *)
C13_ContextHidesIdentifiers ==
    (applied.called /\ \A i \in 1..Len(applied.docs) :
                           applied.metas[i].category = applied.other_metas[i].category) =>
        /\ applied.ctx = applied.other_ctx
        /\ applied.ctx =
               ClaimedContext(applied.docs,
                              [i \in 1..Len(applied.docs) |-> applied.metas[i].category])
        /\ \A i \in 1..Len(applied.docs) :
               /\ applied.metas[i].qa_id # None => ~Contains(applied.ctx, applied.metas[i].qa_id)
               /\ ~Contains(applied.ctx, applied.metas[i].source)

\* two results of two documents that differ in qa_id and in source at both
\* places, one document with a category and one without, gave one context
C13_Witness ==
    /\ applied.called
    /\ Len(applied.docs) = 2
    /\ applied.docs[1] # applied.docs[2]
    /\ applied.metas[1].category # applied.metas[2].category
    /\ \A i \in 1..2 : /\ applied.metas[i].qa_id # applied.other_metas[i].qa_id
                       /\ applied.metas[i].source # applied.other_metas[i].source
    /\ applied.ctx = applied.other_ctx
    /\ applied.ctx # <<>>

(* C14: the session table holds exactly the keys that a memory-enabled /ask
   with a non-blank question named since startup or since the key was last
   deleted.  A /clear-memory leaves the keys as they are and leaves the
   session it names, if there is one, with an empty memory; a DELETE removes
   the session it names and no other; an /ask removes none. *)
C14_SessionLifecycle ==
    /\ [](DOMAIN conversation_sessions = referenced)
    /\ [][/\ served'.kind = "clear" =>
                /\ DOMAIN conversation_sessions' = DOMAIN conversation_sessions
                /\ served'.key \in DOMAIN conversation_sessions =>
                       conversation_sessions'[served'.key].history = <<>>
          /\ served'.kind = "delete" =>
                /\ DOMAIN conversation_sessions' = DOMAIN conversation_sessions \ {served'.key}
                /\ \A k \in DOMAIN conversation_sessions' :
                       conversation_sessions'[k] = conversation_sessions[k]
          /\ served'.kind = "ask" =>
                DOMAIN conversation_sessions \subseteq DOMAIN conversation_sessions']_vars

\* both sessions were created by memory-enabled requests, the last of them
\* naming s1, and a DELETE of s1 left the default session alone
C14_Witness ==
    /\ served = [kind |-> "delete", key |-> "s1"]
    /\ last.request.session_id = "s1"
    /\ last.request.use_memory
    /\ last.status = 200
    /\ DOMAIN conversation_sessions = {"default"}

\* the number of calls of a function in a call trace
Calls(trace, function) ==
    Cardinality({i \in 1..Len(trace) : trace[i].op = function})

(* C15: an /ask whose generate call raises ends with status 500: generate
   was called once and not again, the response carries no answer, the
   results file is as before, every session that existed holds the
   interactions it held, and a session the request created holds none. *)
C15_GeneratorFailureIsFatal ==
    [][(/\ now' # now
        /\ last'.env.generate = "raise"
        /\ Calls(last'.trace, "generate") > 0) =>
          /\ last'.status = 500
          /\ Calls(last'.trace, "generate") = 1
          /\ last'.trace[Len(last'.trace)].op = "generate"
          /\ last'.answer = ""
          /\ results_file' = results_file
          /\ \A k \in DOMAIN conversation_sessions :
                 /\ k \in DOMAIN conversation_sessions'
                 /\ conversation_sessions'[k].history = conversation_sessions[k].history
          /\ \A k \in DOMAIN conversation_sessions' \ DOMAIN conversation_sessions :
                 conversation_sessions'[k].history = <<>>]_vars

\* a memory-enabled request failed in generate, after a request on the
\* other session had been answered and logged
C15_Witness ==
    /\ now = 2
    /\ served.kind = "ask"
    /\ last.status = 500
    /\ last.docs # <<>>
    /\ last.request.use_memory
    /\ DOMAIN conversation_sessions = {"default", "s1"}
    /\ Len(results_file.data) = 2

(* C16: a request changes no session but the one it names: every other key
   stays in or out of the session table as it was, with the memory it had;
   and an /ask with use_memory unset changes the session table not at all.
   So the history of a session is the one its own requests produce. *)
C16_SessionsAreIndependent ==
    [][/\ \A k \in DOMAIN conversation_sessions \cup DOMAIN conversation_sessions' :
              k # served'.key =>
                  /\ k \in DOMAIN conversation_sessions
                  /\ k \in DOMAIN conversation_sessions'
                  /\ conversation_sessions'[k] = conversation_sessions[k]
       /\ (served'.kind = "ask" /\ now' # now /\ ~last'.request.use_memory) =>
              conversation_sessions' = conversation_sessions]_vars

\* the default session exists, and an answered /ask that named s1 with
\* use_memory unset created no session
C16_Witness ==
    /\ served = [kind |-> "ask", key |-> "s1"]
    /\ last.request.session_id = "s1"
    /\ ~last.request.use_memory
    /\ last.status = 200
    /\ DOMAIN conversation_sessions = {"default"}

(* C17: the results file is append-only.  An /ask that ends with status 200
   leaves the entries the file held, in their order, followed by the one
   entry {query, answer, sources, timestamp} of the request, whatever the
   file held before; no other step changes the entries. *)
C17_LogIsAppendOnly ==
    [][IF now' # now /\ last'.status = 200
       THEN results_file'.data =
                Append(results_file.data,
                       [query |-> strip(last'.request.question, Whitespace),
                        answer |-> last'.answer,
                        sources |-> last'.sources,
                        timestamp |-> now'])
       ELSE results_file'.data = results_file.data]_vars

\* the places of the calls of a function in the trace of the last request
Places(function) == {i \in 1..Len(last.trace) : last.trace[i].op = function}

(* C18: one /ask queries the vector store at most twice and the keyword
   retriever at most twice, and calls generate at most once.  A second query
   of a path is unfiltered and directly follows a query of that path that
   had a filter and returned no document.  The keyword retriever is called
   only after embed failed in the try block. *)
C18_OneBroadeningPerPath ==
    Asked =>
        /\ Cardinality(Places("retrieve_with_chroma")) <= 2
        /\ Cardinality(Places("local_retrieve")) <= 2
        /\ Cardinality(Places("generate")) <= 1
        /\ \A path \in {"retrieve_with_chroma", "local_retrieve"} :
               \A i, j \in Places(path) :
                   i < j => /\ j = i + 1
                            /\ last.trace[i].arg # None /\ last.trace[i].arg # <<>>
                            /\ last.trace[i].n = 0
                            /\ last.trace[j].arg = None
        /\ \A i \in Places("local_retrieve") :
               \E e \in Places("embed") : e < i /\ last.trace[e].n = 0
        /\ \A i \in Places("generate") :
               \A r \in Places("retrieve_with_chroma") \cup Places("local_retrieve") : r < i

\* embed failed, the keyword search filtered by the detected category found
\* nothing, the unfiltered one found a record, and generate answered
C18_Witness ==
    /\ last.status = 200
    /\ Cardinality(Places("local_retrieve")) = 2
    /\ Cardinality(Places("generate")) = 1
    /\ last.docs # <<>>

====
